---- MODULE Spec2Model ----
(***************************************************************************)
(* The image optimizer: the S3 event handler (src/index.ts, kept here as   *)
(* src/unnamed/part_000) and the bulk driver                               *)
(* (src/scripts/quick-process.ts).                                         *)
(*                                                                         *)
(* Strings are sequences of characters; a character is a one-element name  *)
(* ("a", ".", "P").  Indexes are JavaScript's: 0-based, -1 for "absent".   *)
(***************************************************************************)
EXTENDS Integers, Sequences, FiniteSets, TLC

VARIABLES
    optimized,   \* the optimized bucket: the set of keys that hold an object
    source,      \* the source bucket: key -> [content, metadata] of its object
    event,       \* handler: the records of the invocation, <<[bucket, key]>>
    rec,         \* handler: per record, the position of its async callback
    outcome,     \* handler: the state of the promise the handler returned
    fnCall,      \* the last call of an exported pure function, with its result
    options,     \* bulk driver: the options of processExistingImages
    bpc,         \* bulk driver: position of processExistingImages
    listing,     \* bulk driver: the keys of the source bucket, in listing order
    cursor,      \* bulk driver: keys already returned by ListObjectsV2 pages
    allImages,   \* bulk driver: const allImages / the images array being filled
    idx,         \* bulk driver: the loop variable i
    items,       \* bulk driver: per image of allImages, its batch callback
    stats,       \* bulk driver: the ProcessingStats counters
    delays,      \* bulk driver: inter-batch setTimeout calls made so far
    iter,        \* bulk driver: loop iterations started so far
    probed       \* bulk driver: items whose existence probe answered true

vars == <<optimized, source, event, rec, outcome, fnCall, options, bpc, listing, cursor,
          allImages,
          idx, items, stats, delays, iter, probed>>

handlerVars == <<event, rec, outcome>>
bulkVars == <<options, bpc, listing, cursor, allImages, idx, items, stats,
              delays, iter, probed>>

(***************************************************************************)
(* Bounds of the model.                                                    *)
(***************************************************************************)
MaxStemLen == 2     \* characters before the tail of a key, pure functions
MaxRecords == 2     \* records of one handler invocation
MaxList == 3        \* objects the source bucket lists in a bulk run
MaxBatch == 2       \* largest batch size option

(***************************************************************************)
(* JavaScript string primitives.                                           *)
(***************************************************************************)
Max(a, b) == IF a > b THEN a ELSE b
Min(a, b) == IF a < b THEN a ELSE b

UPPER == <<"A", "B", "E", "F", "G", "I", "J", "M", "N", "P", "T", "W", "X">>
LOWER == <<"a", "b", "e", "f", "g", "i", "j", "m", "n", "p", "t", "w", "x">>

\* String.prototype.toLowerCase on one character.  U+0130 (capital I with
\* dot above, "I_dot") lowercases to two code units, "i" and U+0307.
LowerChar(c) ==
    IF \E k \in 1..Len(UPPER) : UPPER[k] = c
    THEN <<LOWER[CHOOSE k \in 1..Len(UPPER) : UPPER[k] = c]>>
    ELSE IF c = "I_dot" THEN <<"i", "dot_above">>
    ELSE <<c>>

RECURSIVE ToLowerCase(_)
ToLowerCase(s) ==
    IF s = <<>> THEN <<>> ELSE LowerChar(Head(s)) \o ToLowerCase(Tail(s))

\* String.prototype.lastIndexOf(ch): 0-based, -1 when ch does not occur.
LastIndexOf(s, ch) ==
    LET hits == {k \in 1..Len(s) : s[k] = ch}
    IN  IF hits = {} THEN -1
        ELSE (CHOOSE k \in hits : \A m \in hits : m <= k) - 1

\* String.prototype.substring(start, end): both clamped to [0, length],
\* swapped when start > end.
Substring(s, start, end) ==
    LET a == Min(Max(start, 0), Len(s))
        b == Min(Max(end, 0), Len(s))
    IN  SubSeq(s, Min(a, b) + 1, Max(a, b))

SubstringFrom(s, start) == Substring(s, start, Len(s))

(***************************************************************************)
(* src/unnamed/part_000: constants and pure functions.                     *)
(***************************************************************************)
DOT_JPG == <<".", "j", "p", "g">>
DOT_JPEG == <<".", "j", "p", "e", "g">>
DOT_PNG == <<".", "p", "n", "g">>
DOT_WEBP == <<".", "w", "e", "b", "p">>
DOT_TIFF == <<".", "t", "i", "f", "f">>
DOT_BMP == <<".", "b", "m", "p">>

SUPPORTED_FORMATS == {DOT_JPG, DOT_JPEG, DOT_PNG, DOT_WEBP, DOT_TIFF, DOT_BMP}

IsSupportedImage(key) ==
    LET extension == SubstringFrom(ToLowerCase(key), LastIndexOf(key, "."))
    IN  extension \in SUPPORTED_FORMATS

WEBP == "image/webp"
PNG == "image/png"

\* What sharp's metadata() reports as the format of a decodable image.
Formats == {"jpeg", "png", "webp", "tiff", "gif"}

\* Mutation of Encoder: the PNG branch is lost.
EncoderAlwaysWebp(format, hasAlpha) == WEBP

\* The branch of optimizeImage that picks the encoder.
Encoder(format, hasAlpha) ==
    IF format = "png" /\ hasAlpha THEN PNG ELSE WEBP

\* optimizeImage: metadata() or toBuffer() may throw; the catch block logs
\* and rethrows.
OptimizeImage(decodes, format, hasAlpha, encodes) ==
    IF ~decodes THEN [ok |-> FALSE, error |-> "decode"]
    ELSE IF ~encodes THEN [ok |-> FALSE, error |-> "encode"]
    ELSE [ok |-> TRUE, contentType |-> Encoder(format, hasAlpha)]

\* Mutation of GenerateOptimizedKey: the key is kept whatever the
\* content-type.
GenerateOptimizedKeyKeepKey(originalKey, contentType) == originalKey

GenerateOptimizedKey(originalKey, contentType) ==
    LET lastDotIndex == LastIndexOf(originalKey, ".")
        baseName == Substring(originalKey, 0, lastDotIndex)
    IN  IF contentType = WEBP THEN baseName \o DOT_WEBP
        ELSE IF contentType = PNG THEN baseName \o DOT_PNG
        ELSE originalKey

(***************************************************************************)
(* The exported pure functions, called on their own.                       *)
(***************************************************************************)
StemChars == {"a", "A", ".", "/", "I_dot"}

Stems == UNION {[1..n -> StemChars] : n \in 0..MaxStemLen}

Tails == {<<>>, DOT_JPG, DOT_JPEG, DOT_PNG, DOT_WEBP, DOT_TIFF, DOT_BMP,
          <<".", "J", "P", "G">>, <<".", "J", "p", "e", "g">>,
          <<".", "P", "n", "G">>, <<".", "W", "e", "b", "P">>,
          <<".", "T", "I", "F", "F">>, <<".", "B", "M", "P">>,
          <<".", "g", "i", "f">>, <<".", "t", "x", "t">>,
          <<".", "p", "n", "g", "x">>, <<".", "j", "p">>,
          <<"p", "n", "g">>, <<"j", "p", "g">>}

Keys == {stem \o tail : stem \in Stems, tail \in Tails}

ContentTypes == {WEBP, PNG, "image/jpeg", "application/octet-stream"}

NoCall == [fn |-> "none"]

\* The source bucket of the model: every object as it was uploaded, with
\* the metadata fields its uploader gave it.
SourceKeys ==
    {<<"a">> \o DOT_JPG, <<"a">> \o DOT_PNG, <<"B", ".", "P", "N", "G">>,
     <<"b", " ", "c", ".", "P", "N", "G">>, <<"e", ".", "t", "x", "t">>,
     <<"I_dot">> \o DOT_PNG}

SourceObjects ==
    [key \in SourceKeys |->
        [content |-> "original", metadata |-> {"uploaded-by"}]]

HandlerIdle ==
    /\ event = <<>>
    /\ rec = <<>>
    /\ outcome = "idle"

BulkIdle ==
    /\ options = [skipExisting |-> TRUE, useLambda |-> FALSE,
                  batchSize |-> 1, delayBetweenBatches |-> 0]
    /\ bpc = "idle"
    /\ listing = <<>>
    /\ cursor = 0
    /\ allImages = <<>>
    /\ idx = 0
    /\ items = <<>>
    /\ stats = [total |-> 0, processed |-> 0, skipped |-> 0, errors |-> 0,
                totalSizeBefore |-> 0, totalSizeAfter |-> 0]
    /\ delays = 0
    /\ iter = 0
    /\ probed = {}

FnInit ==
    /\ fnCall = NoCall
    /\ optimized = {}
    /\ source = SourceObjects
    /\ HandlerIdle
    /\ BulkIdle

CallIsSupportedImage ==
    /\ fnCall = NoCall
    /\ \E key \in Keys :
          fnCall' = [fn |-> "isSupportedImage", key |-> key,
                     result |-> IsSupportedImage(key)]
    /\ UNCHANGED <<optimized, source, handlerVars, bulkVars>>

CallGenerateOptimizedKey ==
    /\ fnCall = NoCall
    /\ \E key \in Keys, contentType \in ContentTypes :
          fnCall' = [fn |-> "generateOptimizedKey", key |-> key,
                     contentType |-> contentType,
                     result |-> GenerateOptimizedKey(key, contentType)]
    /\ UNCHANGED <<optimized, source, handlerVars, bulkVars>>

CallOptimizeImage ==
    /\ fnCall = NoCall
    /\ \E decodes \in BOOLEAN, format \in Formats, hasAlpha \in BOOLEAN,
          encodes \in BOOLEAN :
          fnCall' = [fn |-> "optimizeImage", decodes |-> decodes,
                     format |-> format, hasAlpha |-> hasAlpha,
                     result |-> OptimizeImage(decodes, format, hasAlpha,
                                              encodes)]
    /\ UNCHANGED <<optimized, source, handlerVars, bulkVars>>

FnNext ==
    \/ CallIsSupportedImage
    \/ CallGenerateOptimizedKey
    \/ CallOptimizeImage

FnSpec == FnInit /\ [][FnNext]_vars

(***************************************************************************)
(* What the claims mean by a key's extension.                              *)
(***************************************************************************)
\* Two characters that differ at most in case (ASCII letters).
SameLetter(c, d) ==
    \/ c = d
    \/ \E k \in 1..Len(UPPER) : {c, d} = {UPPER[k], LOWER[k]}

\* The key ends in ext, compared case-insensitively.
EndsWithIgnoreCase(key, ext) ==
    /\ Len(key) >= Len(ext)
    /\ \A k \in 1..Len(ext) : SameLetter(key[Len(key) - Len(ext) + k], ext[k])

HasAllowedExtension(key) ==
    \E ext \in SUPPORTED_FORMATS : EndsWithIgnoreCase(key, ext)

HasDot(key) == \E k \in 1..Len(key) : key[k] = "."

\* The key without its last extension: a key with no dot has none.
StripExtension(key) ==
    IF HasDot(key) THEN SubSeq(key, 1, LastIndexOf(key, ".")) ELSE key

(***************************************************************************)
(* src/unnamed/part_000: the handler.                                      *)
(*                                                                         *)
(* event.Records.map(async ...) runs every callback up to its first await, *)
(* so an invocation starts all its records in one step; each reply of S3   *)
(* or of sharp then resumes one callback.  await Promise.all(...) settles  *)
(* the handler's promise: rejected with the first callback that rejects,   *)
(* fulfilled when every callback has fulfilled.                            *)
(***************************************************************************)
OPTIMIZED_BUCKET == "optimized-bucket"
SOURCE_BUCKET == "source-bucket"

\* A PutObjectCommand that S3 has carried out: the object is in the bucket
\* the command names, under the key it names.
PutObject(bucket, key) ==
    IF bucket = OPTIMIZED_BUCKET
    THEN /\ optimized' = optimized \cup {key}
         /\ UNCHANGED source
    ELSE /\ source' = (key :> [content |-> "optimized",
                               metadata |-> {"processed-at"}]) @@ source
         /\ UNCHANGED optimized

\* Mutation of HandlerPutBucket: the artifact goes to the source bucket.
HandlerPutBucketSource == SOURCE_BUCKET

\* new PutObjectCommand({ Bucket: OPTIMIZED_BUCKET, ... }) of the handler
HandlerPutBucket == OPTIMIZED_BUCKET

\* record.s3.object.key.replace(/\+/g, " ")
ReplacePlus(s) == [k \in 1..Len(s) |-> IF s[k] = "+" THEN " " ELSE s[k]]

\* A percent escape is one element of an encoded key ("%2E"), so every
\* encoded key is well formed, as S3 delivers it.
PercentDecode(c) ==
    CASE c = "%2E" -> "."
      [] c = "%2B" -> "+"
      [] c = "%20" -> " "
      [] c = "%C4%B0" -> "I_dot"
      [] OTHER -> c

DecodeURIComponent(s) == [k \in 1..Len(s) |-> PercentDecode(s[k])]

DecodeKey(rawKey) == DecodeURIComponent(ReplacePlus(rawKey))

\* The notifications of the model: two supported objects of the source
\* bucket (one whose key needs decoding), an unsupported one, and the
\* object the handler derives from the first, in the optimized bucket.
Records ==
    {[bucket |-> SOURCE_BUCKET, key |-> <<"a">> \o DOT_JPG],
     [bucket |-> SOURCE_BUCKET,
      key |-> <<"b", "+", "c", "%2E", "P", "N", "G">>],
     [bucket |-> SOURCE_BUCKET, key |-> <<"e", ".", "t", "x", "t">>],
     [bucket |-> OPTIMIZED_BUCKET, key |-> <<"a">> \o DOT_WEBP]}

Events == UNION {[1..n -> Records] : n \in 1..MaxRecords}

\* Mutation of StartRecord: the allow-list guard is lost.
StartRecordNoExtensionGuard(record) ==
    LET sourceKey == DecodeKey(record.key)
        r == [sourceKey |-> sourceKey, pc |-> "skipped", error |-> "none",
              fetches |-> 0, stores |-> 0, optimizedKey |-> <<>>]
    IN  IF record.bucket = OPTIMIZED_BUCKET THEN r
        ELSE [r EXCEPT !.pc = "fetching", !.fetches = 1]

\* Mutation of StartRecord: the optimized-bucket guard is lost.
StartRecordNoBucketGuard(record) ==
    LET sourceKey == DecodeKey(record.key)
        r == [sourceKey |-> sourceKey, pc |-> "skipped", error |-> "none",
              fetches |-> 0, stores |-> 0, optimizedKey |-> <<>>]
    IN  IF ~IsSupportedImage(sourceKey) THEN r
        ELSE [r EXCEPT !.pc = "fetching", !.fetches = 1]

\* The callback of one record up to its first await: the two guards, then
\* the GetObjectCommand is sent.
StartRecord(record) ==
    LET sourceBucket == record.bucket
        sourceKey == DecodeKey(record.key)
        r == [sourceKey |-> sourceKey, pc |-> "skipped", error |-> "none",
              fetches |-> 0, stores |-> 0, optimizedKey |-> <<>>]
    IN  IF ~IsSupportedImage(sourceKey) THEN r
        ELSE IF sourceBucket = OPTIMIZED_BUCKET THEN r
        ELSE [r EXCEPT !.pc = "fetching", !.fetches = 1]

\* Mutation of CatchRethrow: the error is logged and not thrown again.
CatchSwallow(r, error) == [r EXCEPT !.pc = "done", !.error = error]

\* Mutation of CatchRethrow: a failed record is fetched once more.
CatchRetryOnce(r, error) ==
    IF r.fetches < 2 THEN [r EXCEPT !.pc = "fetching", !.fetches = @ + 1]
    ELSE [r EXCEPT !.pc = "rejected", !.error = error]

\* catch (error) { console.error(...); throw error; }
CatchRethrow(r, error) == [r EXCEPT !.pc = "rejected", !.error = error]

Fulfilled(r) == r.pc \in {"skipped", "done"}
Rejected(r) == r.pc = "rejected"
Settled(r) == Fulfilled(r) \/ Rejected(r)

\* await Promise.all(processingPromises), seen from the handler's promise.
PromiseAll(recs) ==
    IF \E i \in DOMAIN recs : Rejected(recs[i]) THEN "failed"
    ELSE IF \A i \in DOMAIN recs : Fulfilled(recs[i]) THEN "succeeded"
    ELSE "running"

Init ==
    /\ optimized = {}
    /\ source = SourceObjects
    /\ HandlerIdle
    /\ fnCall = NoCall
    /\ BulkIdle

\* export const handler = async (event) => ...: up to the await of
\* Promise.all.
Handler(e) ==
    /\ event' = e
    /\ rec' = [i \in DOMAIN e |-> StartRecord(e[i])]
    /\ outcome' = PromiseAll(rec')
    /\ UNCHANGED <<optimized, source, fnCall, bulkVars>>

\* The platform delivers an event to the handler.
Invoke ==
    /\ outcome = "idle"
    /\ \E e \in Events : Handler(e)

\* The platform's retry of an invocation that failed: the same event again.
\* Callbacks the failed invocation left in flight are gone.
Redeliver ==
    /\ outcome = "failed"
    /\ Handler(event)

\* S3 encodes the key of a notification: a space as "+", a "+" as "%2B".
EncodeKey(key) ==
    [k \in 1..Len(key) |-> CASE key[k] = " " -> "+"
                             [] key[k] = "+" -> "%2B"
                             [] key[k] = "I_dot" -> "%C4%B0"
                             [] OTHER -> key[k]]

\* A notification for an object of the optimized bucket reaches the handler
\* (both buckets the same, or the optimized bucket wired to the function).
NotifyOptimized ==
    /\ outcome \in {"succeeded", "failed"}
    /\ \E key \in optimized :
          Handler(<<[bucket |-> OPTIMIZED_BUCKET, key |-> EncodeKey(key)]>>)

Resume(i, r) ==
    /\ rec' = [rec EXCEPT ![i] = r]
    /\ outcome' = PromiseAll(rec')
    /\ UNCHANGED <<event, fnCall, bulkVars>>

\* const { Body, Metadata } = await s3Client.send(getObjectCommand)
FetchReply(i) ==
    /\ rec[i].pc = "fetching"
    /\ \E reply \in {"body", "nobody", "error"} :
          Resume(i, CASE reply = "body" -> [rec[i] EXCEPT !.pc = "reading"]
                      [] reply = "nobody" -> CatchRethrow(rec[i], "nobody")
                      [] reply = "error" -> CatchRethrow(rec[i], "fetch"))
    /\ UNCHANGED <<optimized, source>>

\* await streamToBuffer(Body)
ReadReply(i) ==
    /\ rec[i].pc = "reading"
    /\ \E ok \in BOOLEAN :
          Resume(i, IF ok THEN [rec[i] EXCEPT !.pc = "optimizing"]
                    ELSE CatchRethrow(rec[i], "read"))
    /\ UNCHANGED <<optimized, source>>

\* await optimizeImage(...), then generateOptimizedKey and the
\* PutObjectCommand is sent.
OptimizeReply(i) ==
    /\ rec[i].pc = "optimizing"
    /\ \E decodes \in BOOLEAN, format \in Formats, hasAlpha \in BOOLEAN,
          encodes \in BOOLEAN :
          LET optimizedImage ==
                  OptimizeImage(decodes, format, hasAlpha, encodes)
          IN  Resume(i, IF optimizedImage.ok
                        THEN [rec[i] EXCEPT
                                !.pc = "storing",
                                !.stores = @ + 1,
                                !.optimizedKey = GenerateOptimizedKey(
                                    rec[i].sourceKey,
                                    optimizedImage.contentType)]
                        ELSE CatchRethrow(rec[i], "transform"))
    /\ UNCHANGED <<optimized, source>>

\* await s3Client.send(putObjectCommand)
StoreReply(i) ==
    /\ rec[i].pc = "storing"
    /\ \E ok \in BOOLEAN :
          /\ Resume(i, IF ok THEN [rec[i] EXCEPT !.pc = "done"]
                       ELSE CatchRethrow(rec[i], "store"))
          /\ IF ok THEN PutObject(HandlerPutBucket, rec[i].optimizedKey)
             ELSE UNCHANGED <<optimized, source>>

Next ==
    \/ Invoke
    \/ Redeliver
    \/ NotifyOptimized
    \/ \E i \in DOMAIN rec :
          \/ FetchReply(i)
          \/ ReadReply(i)
          \/ OptimizeReply(i)
          \/ StoreReply(i)

Spec == Init /\ [][Next]_vars

InProgress(r) == r.pc \in {"fetching", "reading", "optimizing", "storing"}

\* C1: when the invocation reports failure no record is still in its
\* fetch/transform/store: every other record has finished first.
C1_FailsAfterAllFinished ==
    outcome = "failed" => \A i \in DOMAIN rec : ~InProgress(rec[i])

\* C2: the invocation fails exactly when a record failed in fetch, missing
\* body, transform or store, and succeeds when every record was stored or
\* skipped.
C2_FailsIffRecordFailed ==
    /\ outcome = "failed" <=> \E i \in DOMAIN rec : rec[i].error # "none"
    /\ \A i \in DOMAIN rec : rec[i].error # "none" => Rejected(rec[i])
    /\ (event # <<>> /\ \A i \in DOMAIN rec : Fulfilled(rec[i]))
           => outcome = "succeeded"
    /\ outcome = "succeeded" =>
           \A i \in DOMAIN rec :
              \/ rec[i].pc = "skipped"
              \/ rec[i].pc = "done" /\ rec[i].optimizedKey \in optimized

C2_Witness ==
    /\ outcome = "failed"
    /\ \E i \in DOMAIN rec : rec[i].error = "store"
    /\ \E i \in DOMAIN rec : rec[i].pc = "done"

\* C3: a record whose source bucket is the optimized bucket is skipped with
\* no fetch and no store and is no failure, also when it names an object the
\* handler itself wrote.
C3_OptimizedBucketSkipped ==
    \A i \in DOMAIN rec :
       event[i].bucket = OPTIMIZED_BUCKET =>
          /\ rec[i].pc = "skipped"
          /\ rec[i].fetches = 0
          /\ rec[i].stores = 0
          /\ rec[i].error = "none"

C3_Witness ==
    \E i \in DOMAIN rec :
       /\ event[i].bucket = OPTIMIZED_BUCKET
       /\ DecodeKey(event[i].key) \in optimized
       /\ HasAllowedExtension(DecodeKey(event[i].key))
       /\ rec[i].pc = "skipped"
       /\ outcome = "succeeded"

\* C4: a record whose decoded key has no allow-listed extension is skipped
\* before any fetch, raises nothing and does not fail the invocation.
C4_UnsupportedSkipped ==
    /\ \A i \in DOMAIN rec :
          ~HasAllowedExtension(DecodeKey(event[i].key)) =>
             /\ rec[i].pc = "skipped"
             /\ rec[i].fetches = 0
             /\ rec[i].stores = 0
             /\ rec[i].error = "none"
    /\ (event # <<>> /\ \A i \in DOMAIN rec :
                           ~HasAllowedExtension(DecodeKey(event[i].key)))
           => outcome = "succeeded"

C4_Witness ==
    /\ event # <<>>
    /\ \A i \in DOMAIN rec :
          /\ event[i].bucket = SOURCE_BUCKET
          /\ ~HasAllowedExtension(DecodeKey(event[i].key))
    /\ outcome = "succeeded"

\* C15: the handler never retries and keeps the order of its steps: for a
\* record at most one fetch and at most one store are sent, the store only
\* after the fetch returned a body and the transform succeeded, and after a
\* failed step no later step is attempted.
C15_NoRetry ==
    \A i \in DOMAIN rec :
       LET r == rec[i]
       IN  /\ r.fetches <= 1 /\ r.stores <= 1
           /\ r.pc = "skipped" => (r.fetches = 0 /\ r.stores = 0)
           /\ r.pc \in {"fetching", "reading", "optimizing"} =>
                  (r.fetches = 1 /\ r.stores = 0 /\ r.optimizedKey = <<>>)
           /\ r.stores = 1 =>
                  /\ r.fetches = 1
                  /\ r.optimizedKey # <<>>
                  /\ r.pc \in {"storing", "done", "rejected"}
                  /\ r.pc = "rejected" => r.error = "store"
           /\ r.pc = "done" => (r.stores = 1 /\ r.error = "none")
           /\ r.error # "none" <=> r.pc = "rejected"
           /\ r.error \in {"fetch", "nobody", "read", "transform"} =>
                  (r.fetches = 1 /\ r.stores = 0)

\* One record was stored after one fetch and one store; another failed at
\* its transform and sent no store.
C15_Witness ==
    \E i, j \in DOMAIN rec :
       /\ rec[i].pc = "done" /\ rec[i].fetches = 1 /\ rec[i].stores = 1
       /\ rec[j].pc = "rejected" /\ rec[j].error = "transform"
       /\ rec[j].fetches = 1 /\ rec[j].stores = 0

\* C5: optimizeImage's content-type is image/png exactly when the decoded
\* format is PNG and the image has an alpha channel, image/webp for every
\* other combination, and never a third value.
C5_ContentType ==
    (fnCall.fn = "optimizeImage" /\ fnCall.result.ok) =>
        /\ fnCall.result.contentType \in {WEBP, PNG}
        /\ (fnCall.result.contentType = PNG) <=>
               (fnCall.format = "png" /\ fnCall.hasAlpha)

C5_Witness ==
    /\ fnCall.fn = "optimizeImage"
    /\ fnCall.result.ok
    /\ fnCall.format = "png"
    /\ fnCall.hasAlpha
    /\ fnCall.result.contentType = PNG

\* C6: generateOptimizedKey returns the key with its last extension stripped
\* plus ".webp" or ".png" (by content-type), the key unchanged for any other
\* content-type, and the result's part before its extension is the source
\* key's part before its extension, also for keys without a dot.
C6_DerivedKey ==
    (fnCall.fn = "generateOptimizedKey") =>
        /\ fnCall.contentType = WEBP =>
               fnCall.result = StripExtension(fnCall.key) \o DOT_WEBP
        /\ fnCall.contentType = PNG =>
               fnCall.result = StripExtension(fnCall.key) \o DOT_PNG
        /\ fnCall.contentType \notin {WEBP, PNG} =>
               fnCall.result = fnCall.key
        /\ StripExtension(fnCall.result) = StripExtension(fnCall.key)

\* C7: isSupportedImage is true exactly for the keys whose trailing
\* extension, compared case-insensitively, is in the allow-list.
C7_Supported ==
    (fnCall.fn = "isSupportedImage") =>
        (fnCall.result <=> HasAllowedExtension(fnCall.key))

\* The extension of a key: from its last dot on, nothing when it has no dot.
ExtensionOf(key) ==
    IF HasDot(key) THEN SubSeq(key, LastIndexOf(key, ".") + 1, Len(key))
    ELSE <<>>

\* C13 as stated: for an artifact made from a supported source key the
\* derived key's extension differs from the source key's when the
\* content-type is image/webp, and a source key's ".png" (in any case) is
\* kept when the content-type is image/png.
C13_ExtensionAsStated ==
    (fnCall.fn = "generateOptimizedKey" /\ HasAllowedExtension(fnCall.key)) =>
        /\ fnCall.contentType = WEBP =>
               ExtensionOf(fnCall.result) # ExtensionOf(fnCall.key)
        /\ (fnCall.contentType = PNG /\ EndsWithIgnoreCase(fnCall.key, DOT_PNG))
               => EndsWithIgnoreCase(fnCall.result, DOT_PNG)

\* C13, amended: for an artifact made from a supported source key the
\* derived key's extension is ".webp" when the content-type is image/webp and
\* ".png" when it is image/png, in lower case whatever the source key's
\* case; it differs from the source key's extension except when the source
\* key already ends in exactly that extension, and then the derived key is
\* the source key itself.
C13_Extension ==
    (fnCall.fn = "generateOptimizedKey" /\ HasAllowedExtension(fnCall.key)) =>
        /\ fnCall.contentType = WEBP =>
               /\ ExtensionOf(fnCall.result) = DOT_WEBP
               /\ ExtensionOf(fnCall.result) = ExtensionOf(fnCall.key)
                      <=> ExtensionOf(fnCall.key) = DOT_WEBP
               /\ fnCall.result = fnCall.key
                      <=> ExtensionOf(fnCall.key) = DOT_WEBP
        /\ fnCall.contentType = PNG =>
               /\ ExtensionOf(fnCall.result) = DOT_PNG
               /\ fnCall.result = fnCall.key
                      <=> ExtensionOf(fnCall.key) = DOT_PNG

\* A ".webp" source key whose artifact is WebP keeps its key.
C13_Witness ==
    /\ fnCall.fn = "generateOptimizedKey"
    /\ fnCall.contentType = WEBP
    /\ ExtensionOf(fnCall.key) = DOT_WEBP
    /\ fnCall.result = fnCall.key

(***************************************************************************)
(* src/scripts/quick-process.ts: the bulk driver.                          *)
(*                                                                         *)
(* processExistingImages lists the source bucket page by page, then loops  *)
(* over allImages in slices of batchSize: batch.map(async ...) starts      *)
(* every item of the slice up to its first await, Promise.all joins them,  *)
(* and setTimeout pauses between batches.                                  *)
(***************************************************************************)
\* The keys of the model's source bucket, in the order S3 lists them.
\* The last one holds U+0130 before its extension.
BulkKeyOrder ==
    << <<"B", ".", "P", "N", "G">>,
       <<"a">> \o DOT_JPG,
       <<"a">> \o DOT_PNG,
       <<"e", ".", "t", "x", "t">>,
       <<"I_dot">> \o DOT_PNG >>

\* The k-th smallest element of a set of numbers.
\* The objects of the model's source bucket differ in size, and sharp gives
\* each its own, smaller, optimized size: a sum of sizes tells which objects
\* it covers.
KeyPosition(key) ==
    CHOOSE n \in 1..Len(BulkKeyOrder) : BulkKeyOrder[n] = key

\* originalBuffer.length
OriginalSize(key) == 32 * (2 ^ KeyPosition(key))

\* optimized.size
OptimizedSize(key) == 2 ^ KeyPosition(key)

Nth(S, k) == CHOOSE x \in S : Cardinality({y \in S : y < x}) = k - 1

Listings ==
    {[k \in 1..Cardinality(S) |-> BulkKeyOrder[Nth(S, k)]] :
        S \in {T \in SUBSET (1..Len(BulkKeyOrder)) : Cardinality(T) <= MaxList}}

\* --batch-size is parsed with parseInt and not validated.
BatchSizes == (0 - 1)..MaxBatch

OptionSets == [skipExisting : BOOLEAN, useLambda : BOOLEAN,
               batchSize : BatchSizes, delayBetweenBatches : {0, 500}]

\* What the optimized bucket may hold before a bulk run.
InitialOptimized == {{}, {<<"a">> \o DOT_WEBP}}

\* A loop that never ends is followed exactly: its counters (iterations,
\* pauses) are counted up to MaxIter and held there, and i is followed down
\* to -MaxIter and held there. Below -allImages.length every slice is empty
\* and i < allImages.length stays true, so the held values behave as the
\* real ones do.
MaxIter == MaxList + 2

BulkInit ==
    /\ optimized \in InitialOptimized
    /\ source = SourceObjects
    /\ HandlerIdle
    /\ fnCall = NoCall
    /\ options \in OptionSets
    /\ listing \in Listings
    /\ bpc = "listing"
    /\ cursor = 0
    /\ allImages = <<>>
    /\ idx = 0
    /\ items = <<>>
    /\ stats = [total |-> 0, processed |-> 0, skipped |-> 0, errors |-> 0,
                totalSizeBefore |-> 0, totalSizeAfter |-> 0]
    /\ delays = 0
    /\ iter = 0
    /\ probed = {}

\* Array.prototype.slice(start, end) as the set of 1-based positions it
\* keeps: a negative index counts from the end, both are clamped.
SlicePositions(len, start, end) ==
    LET from == IF start < 0 THEN Max(len + start, 0) ELSE Min(start, len)
        to == IF end < 0 THEN Max(len + end, 0) ELSE Min(end, len)
    IN  {k \in 1..len : from < k /\ k <= to}

\* const batch = allImages.slice(i, i + batchSize)
CurrentBatch ==
    SlicePositions(Len(allImages), idx, idx + options.batchSize)

\* An item of the list: where its callback stands, the GetObject replies its
\* probe has received, the source GetObject, PutObject and CopyObject
\* requests sent for it so far, and whether the notification of its copy has
\* reached the handler.
PendingItem ==
    [pc |-> "pending", optimizedKey |-> <<>>, gets |-> <<>>,
     fetches |-> 0, stores |-> 0, copies |-> 0, triggered |-> FALSE]

ItemSettled(item) == item.pc \in {"skipped", "processed", "error"}
ItemInFlight(item) == item.pc \notin {"pending", "skipped", "processed", "error"}

\* response.Contents.filter(obj => obj.Key && isSupportedImage(obj.Key))
ImageKeys(page) == SelectSeq(page, IsSupportedImage)

\* listAllImages: one page of ListObjectsV2 answers; after the last page
\* stats.total is set and the loop starts at i = 0.
ListReply ==
    /\ bpc = "listing"
    /\ \E n \in IF cursor < Len(listing) THEN 1..(Len(listing) - cursor)
                ELSE {0} :
          LET page == SubSeq(listing, cursor + 1, cursor + n)
              images == allImages \o ImageKeys(page)
              continuationToken == cursor + n < Len(listing)
          IN  /\ cursor' = cursor + n
              /\ allImages' = images
              /\ IF continuationToken
                 THEN UNCHANGED <<bpc, stats, items>>
                 ELSE /\ bpc' = "head"
                      /\ stats' = [stats EXCEPT !.total = Len(images)]
                      /\ items' = [k \in 1..Len(images) |-> PendingItem]
    /\ UNCHANGED <<optimized, source, handlerVars, fnCall, options, listing, idx,
                   delays, iter, probed>>

\* s3Client.send(ListObjectsV2Command) throws: main() catches, exit(1).
ListError ==
    /\ bpc = "listing"
    /\ bpc' = "fatal"
    /\ UNCHANGED <<optimized, source, handlerVars, fnCall, options, listing, cursor,
                   allImages, idx, items, stats, delays, iter, probed>>

\* Mutation of StartProcessing: the mode option is ignored.
StartProcessingDirect == "fetching"

\* processImageViaLambda / processImageDirect up to the first await.
StartProcessing == IF options.useLambda THEN "copying" ELSE "fetching"

\* Mutation of StartItem: the probe is left out.
StartItemNoProbe == StartProcessing

\* The batch callback up to its first await.
StartItem == IF options.skipExisting THEN "probe1" ELSE StartProcessing

\* The callback of an item runs on to the await at pc: the request it waits
\* for has been sent.
Send(item, pc) ==
    [item EXCEPT !.pc = pc,
                 !.fetches = IF pc = "fetching" THEN @ + 1 ELSE @,
                 !.copies = IF pc = "copying" THEN @ + 1 ELSE @]

\* for (let i = 0; i < allImages.length; i += batchSize): the test, and the
\* dispatch of the slice.
LoopHead ==
    /\ bpc = "head"
    /\ IF idx < Len(allImages)
       THEN /\ iter' = Min(iter + 1, MaxIter)
            /\ items' = [k \in DOMAIN items |->
                            IF k \in CurrentBatch
                            THEN Send(items[k], StartItem)
                            ELSE items[k]]
            /\ bpc' = "batch"
       ELSE /\ bpc' = "done"
            /\ UNCHANGED <<iter, items>>
    /\ UNCHANGED <<optimized, source, handlerVars, fnCall, options, listing, cursor,
                   allImages, idx, stats, delays, probed>>

\* Mutation of Count: the increment is lost.
CountLost(counter) == stats

\* stats.processed++, stats.skipped++, stats.errors++
Count(counter) == [stats EXCEPT ![counter] = @ + 1]

ItemStep(k, item) ==
    /\ items' = [items EXCEPT ![k] = item]
    /\ UNCHANGED <<handlerVars, fnCall, options, bpc, listing, cursor,
                   allImages, idx, delays, iter>>

\* optimizedVersionExists: GetObject of the webp key, then of the png key;
\* a GetObject that throws, for any reason, moves on to the next key.
CheckKeys(key) ==
    <<GenerateOptimizedKey(key, WEBP), GenerateOptimizedKey(key, PNG)>>

\* Mutation of ProbeFound: a GetObject that throws counts as found too.
ProbeFoundAlways(reply) == TRUE

\* try { await s3Client.send(GetObjectCommand); return true } catch { continue }
ProbeFound(reply) == reply = "ok"

\* What a GetObject of checkKey can do: return the object when it is there,
\* throw at any time (missing key, or any other error).
ProbeReplies(checkKey) ==
    IF checkKey \in optimized THEN {"ok", "failed"} ELSE {"failed"}

ItemProbeReply(k) ==
    /\ items[k].pc \in {"probe1", "probe2"}
    /\ LET n == IF items[k].pc = "probe1" THEN 1 ELSE 2
           checkKey == CheckKeys(allImages[k])[n]
       IN  \E reply \in ProbeReplies(checkKey) :
              LET item == [items[k] EXCEPT !.gets = Append(@, reply)]
              IN  IF ProbeFound(reply)
                  THEN /\ ItemStep(k, [item EXCEPT !.pc = "skipped"])
                       /\ stats' = Count("skipped")
                       /\ probed' = probed \cup {k}
                  ELSE /\ ItemStep(k, IF n = 1 THEN Send(item, "probe2")
                                      ELSE Send(item, StartProcessing))
                       /\ UNCHANGED <<stats, probed>>
    /\ UNCHANGED <<optimized, source>>

\* Mutation of ItemCatch: the failure is logged and not counted.
ItemCatchUncounted(k) ==
    /\ ItemStep(k, [items[k] EXCEPT !.pc = "error"])
    /\ UNCHANGED <<optimized, source, stats, probed>>

\* catch (error) { console.error(...); stats.errors++; }
ItemCatch(k) ==
    /\ ItemStep(k, [items[k] EXCEPT !.pc = "error"])
    /\ stats' = Count("errors")
    /\ UNCHANGED <<optimized, source, probed>>

ItemContinue(k, item) ==
    /\ ItemStep(k, item)
    /\ UNCHANGED <<optimized, source, stats, probed>>

\* stats.totalSizeBefore += ..., stats.totalSizeAfter += ...
AddBytes(total, bytes) == [stats EXCEPT ![total] = @ + bytes]

\* The callback goes on to its next await after adding to a byte total.
ItemMeasured(k, item, total, bytes) ==
    /\ ItemStep(k, item)
    /\ stats' = AddBytes(total, bytes)
    /\ UNCHANGED <<optimized, source, probed>>

\* processImageDirect: await s3Client.send(getObjectCommand)
ItemFetchReply(k) ==
    /\ items[k].pc = "fetching"
    /\ \E reply \in {"body", "nobody", "error"} :
          IF reply = "body"
          THEN ItemContinue(k, [items[k] EXCEPT !.pc = "reading"])
          ELSE ItemCatch(k)

\* processImageDirect: await streamToBuffer(Body), then
\* stats.totalSizeBefore += originalBuffer.length
ItemReadReply(k) ==
    /\ items[k].pc = "reading"
    /\ \E ok \in BOOLEAN :
          IF ok
          THEN ItemMeasured(k, [items[k] EXCEPT !.pc = "optimizing"],
                            "totalSizeBefore", OriginalSize(allImages[k]))
          ELSE ItemCatch(k)

\* processImageDirect: await optimizeImage(...), then
\* stats.totalSizeAfter += optimized.size, generateOptimizedKey, and the
\* PutObjectCommand is sent.
ItemOptimizeReply(k) ==
    /\ items[k].pc = "optimizing"
    /\ \E decodes \in BOOLEAN, format \in Formats, hasAlpha \in BOOLEAN,
          encodes \in BOOLEAN :
          LET optimizedImage ==
                  OptimizeImage(decodes, format, hasAlpha, encodes)
          IN  IF optimizedImage.ok
              THEN ItemMeasured(k, [items[k] EXCEPT
                      !.pc = "storing",
                      !.stores = @ + 1,
                      !.optimizedKey = GenerateOptimizedKey(
                          allImages[k], optimizedImage.contentType)],
                      "totalSizeAfter", OptimizedSize(allImages[k]))
              ELSE ItemCatch(k)

\* new PutObjectCommand({ Bucket: OPTIMIZED_BUCKET, ... }) of direct mode
DirectPutBucket == OPTIMIZED_BUCKET

\* processImageDirect: await s3Client.send(putObjectCommand)
ItemStoreReply(k) ==
    /\ items[k].pc = "storing"
    /\ \E ok \in BOOLEAN :
          IF ok
          THEN /\ ItemStep(k, [items[k] EXCEPT !.pc = "processed"])
               /\ PutObject(DirectPutBucket, items[k].optimizedKey)
               /\ stats' = Count("processed")
               /\ UNCHANGED probed
          ELSE ItemCatch(k)

\* Metadata: { "reprocessed-at": ..., trigger: "batch-processor" }
TriggerMetadata == {"reprocessed-at", "trigger"}

\* MetadataDirective: "REPLACE": the copy carries the metadata of the
\* command and not that of the object copied.
CopyMetadata(object) == TriggerMetadata

\* A CopyObjectCommand of a source object onto itself that S3 has carried
\* out: the same content under the same key, with the copy's metadata.
CopyObject(key) ==
    source' = [source EXCEPT ![key] =
                  [content |-> source[key].content,
                   metadata |-> CopyMetadata(source[key])]]

\* processImageViaLambda: await s3Client.send(copyCommand)
ItemCopyReply(k) ==
    /\ items[k].pc = "copying"
    /\ \E ok \in BOOLEAN :
          IF ok
          THEN /\ ItemStep(k, [items[k] EXCEPT !.pc = "processed"])
               /\ stats' = Count("processed")
               /\ CopyObject(allImages[k])
               /\ UNCHANGED <<optimized, probed>>
          ELSE ItemCatch(k)

\* Mutation of NeedsDelay: the pause also follows the final batch.
NeedsDelayAfterEveryBatch == options.delayBetweenBatches > 0

\* if (i + batchSize < allImages.length && delayBetweenBatches > 0)
NeedsDelay ==
    /\ idx + options.batchSize < Len(allImages)
    /\ options.delayBetweenBatches > 0

\* await Promise.all(batchPromises): no callback rejects, so it resolves
\* when every item of the slice has settled.
BatchJoined == \A k \in CurrentBatch : ItemSettled(items[k])

\* i += batchSize
NextIndex == Max(idx + options.batchSize, 0 - MaxIter)

\* After the join: the progress line, then the pause or the next iteration.
BatchJoin ==
    /\ bpc = "batch"
    /\ BatchJoined
    /\ IF NeedsDelay
       THEN /\ delays' = Min(delays + 1, MaxIter)
            /\ bpc' = "delay"
            /\ UNCHANGED idx
       ELSE /\ idx' = NextIndex
            /\ bpc' = "head"
            /\ UNCHANGED delays
    /\ UNCHANGED <<optimized, source, handlerVars, fnCall, options, listing, cursor,
                   allImages, items, stats, iter, probed>>

\* The setTimeout of the pause fires; i += batchSize.
DelayElapsed ==
    /\ bpc = "delay"
    /\ idx' = NextIndex
    /\ bpc' = "head"
    /\ UNCHANGED <<optimized, source, handlerVars, fnCall, options, listing, cursor,
                   allImages, items, stats, delays, iter, probed>>

BulkNext ==
    \/ ListReply
    \/ ListError
    \/ LoopHead
    \/ BatchJoin
    \/ DelayElapsed
    \/ \E k \in DOMAIN items :
          \/ ItemProbeReply(k)
          \/ ItemFetchReply(k)
          \/ ItemReadReply(k)
          \/ ItemOptimizeReply(k)
          \/ ItemStoreReply(k)
          \/ ItemCopyReply(k)

BulkSpec == BulkInit /\ [][BulkNext]_vars

\* Every request is answered, every timer fires and the event loop runs
\* whatever is ready.
BulkFairSpec == BulkSpec /\ WF_vars(BulkNext)

(***************************************************************************)
(* A bulk run in indirect mode together with the handler: the copy of a    *)
(* source object onto itself creates the object anew, S3 notifies the      *)
(* function (terraform/main.tf wires s3:ObjectCreated:* of the source      *)
(* bucket to it) and the handler runs on a one-record event, at any time   *)
(* after the copy and independently of the run.  One invocation is         *)
(* followed at a time.                                                     *)
(***************************************************************************)
Trigger(k) ==
    /\ items[k].pc = "processed"
    /\ items[k].copies = 1
    /\ ~items[k].triggered
    /\ outcome \in {"idle", "succeeded", "failed"}
    /\ LET e == <<[bucket |-> SOURCE_BUCKET,
                   key |-> EncodeKey(allImages[k])]>>
       IN  /\ event' = e
           /\ rec' = [i \in DOMAIN e |-> StartRecord(e[i])]
           /\ outcome' = PromiseAll(rec')
    /\ items' = [items EXCEPT ![k].triggered = TRUE]
    /\ UNCHANGED <<optimized, source, fnCall, options, bpc, listing, cursor,
                   allImages, idx, stats, delays, iter, probed>>

IndirectInit == BulkInit /\ options.useLambda

IndirectNext ==
    \/ ListReply
    \/ ListError
    \/ LoopHead
    \/ BatchJoin
    \/ DelayElapsed
    \/ \E k \in DOMAIN items :
          \/ ItemProbeReply(k)
          \/ ItemCopyReply(k)
          \/ Trigger(k)
    \/ \E i \in DOMAIN rec :
          \/ FetchReply(i)
          \/ ReadReply(i)
          \/ OptimizeReply(i)
          \/ StoreReply(i)

IndirectSpec == IndirectInit /\ [][IndirectNext]_vars

(***************************************************************************)
(* The system: a bulk run of either mode, and the handler running on the   *)
(* notifications of the objects an indirect-mode run has copied.           *)
(***************************************************************************)
SystemNext ==
    \/ BulkNext
    \/ \E k \in DOMAIN items : Trigger(k)
    \/ \E i \in DOMAIN rec :
          \/ FetchReply(i)
          \/ ReadReply(i)
          \/ OptimizeReply(i)
          \/ StoreReply(i)

SystemSpec == BulkInit /\ [][SystemNext]_vars

\* Listed keys that end in an allow-listed extension (N of the claim).
SupportedListed ==
    Cardinality({k \in 1..Len(listing) : HasAllowedExtension(listing[k])})

\* C8: of a listing with N supported and M unsupported keys the run
\* considers exactly N (total = N); with skip-existing, when the probe
\* answered "exists" for K of them, K are skipped and the other N - K are
\* processed (counted as processed or, when a step of theirs failed, as
\* errors) at run end.
C8_BulkCounts ==
    bpc = "done" =>
        /\ stats.total = SupportedListed
        /\ stats.skipped = Cardinality(probed)
        /\ stats.processed + stats.errors =
               SupportedListed - Cardinality(probed)

\* ceil(a / b) for b >= 1.
CeilDiv(a, b) == (a + b - 1) \div b

\* C9 as stated: for every batch size B and list length L a run performs
\* exactly ceil(L / B) - 1 inter-batch delays.
C9_DelaysAsStated ==
    (bpc = "done" /\ options.batchSize >= 1) =>
        delays = CeilDiv(Len(allImages), options.batchSize) - 1

\* C9, amended: for B >= 1 a run performs ceil(L / B) - 1 delays, one after
\* each batch but the final one, when L >= 1 and the configured delay is
\* positive, and none when L = 0 or the delay is 0; for B <= 0 a run with
\* L >= 1 never reaches a final batch.
C9_Delays ==
    LET B == options.batchSize
        L == Len(allImages)
    IN  /\ (bpc = "done" /\ B >= 1) =>
               delays = IF L = 0 \/ options.delayBetweenBatches = 0 THEN 0
                        ELSE CeilDiv(L, B) - 1
        /\ (bpc = "done" /\ B <= 0) => (L = 0 /\ delays = 0)
        /\ (bpc \in {"head", "batch", "delay"} /\ B >= 1
                /\ options.delayBetweenBatches > 0) =>
               delays = IF bpc = "delay" THEN (idx \div B) + 1
                        ELSE Max(0, Min(idx \div B, CeilDiv(L, B) - 1))
        /\ options.delayBetweenBatches = 0 => delays = 0

C9_Witness ==
    /\ bpc = "done"
    /\ options.batchSize = 2
    /\ Len(allImages) = 3
    /\ delays = 1

\* C10: batches run in list order with a barrier: no item of a later batch
\* is dispatched before every item of the earlier batches has finished, and
\* the items in flight never outnumber the configured batch size.
C10_Barrier ==
    LET B == options.batchSize
        inFlight == {k \in DOMAIN items : ItemInFlight(items[k])}
    IN  /\ B >= 1 =>
               \A j, k \in DOMAIN items :
                  ((j - 1) \div B < (k - 1) \div B
                      /\ items[k].pc # "pending") => ItemSettled(items[j])
        /\ inFlight # {} => Cardinality(inFlight) <= B

\* C11: a failure of an item's step (source fetch, missing body, transform,
\* store, copy-to-self) is caught inside the item: it adds exactly one to
\* errors and aborts neither the batch nor the run. The error count is the
\* number of failed items, the other items of the batch are dispatched all
\* the same, only a listing failure ends the run abnormally, and a run that
\* ends has dispatched and finished every item of every batch.
C11_FailuresContained ==
    LET failed == {k \in DOMAIN items : items[k].pc = "error"}
    IN  /\ stats.errors = Cardinality(failed)
        /\ \A k \in failed : items[k].fetches + items[k].copies = 1
        /\ bpc = "fatal" => (items = <<>> /\ stats.errors = 0)
        /\ bpc = "batch" => \A k \in CurrentBatch : items[k].pc # "pending"
        /\ (failed # {} /\ bpc = "batch" /\ BatchJoined) => ENABLED BatchJoin
        /\ bpc = "done" => \A k \in DOMAIN items : ItemSettled(items[k])

\* An item fails in the first batch; its batch mate and the next batch are
\* processed and the run ends.
C11_Witness ==
    /\ bpc = "done"
    /\ options.batchSize = 2
    /\ Len(items) = 3
    /\ items[1].pc = "error"
    /\ items[2].pc = "processed"
    /\ items[3].pc = "processed"
    /\ stats.errors = 1

\* C12: the existence probe answers true exactly when a GetObject of the
\* webp-derived or of the png-derived key succeeds in the optimized bucket; a
\* GetObject that fails, for whatever reason, counts as "does not exist": it
\* is not propagated and never makes the item an error. With skip-existing
\* an item whose probe answered true is counted as skipped and is neither
\* fetched from the source bucket nor stored.
C12_Probe ==
    \A k \in DOMAIN items :
       LET item == items[k]
           succeeded == {n \in DOMAIN item.gets : item.gets[n] = "ok"}
       IN  /\ k \in probed <=> succeeded # {}
           /\ \A n \in succeeded : CheckKeys(allImages[k])[n] \in optimized
           /\ Len(item.gets) <= 2
           /\ (item.gets # <<>> /\ succeeded = {}) =>
                  /\ item.pc # "skipped"
                  /\ item.pc = "error" => item.fetches + item.copies = 1
                  /\ Len(item.gets) = 2 => item.fetches + item.copies = 1
           /\ k \in probed =>
                  /\ options.skipExisting
                  /\ item.pc = "skipped"
                  /\ item.fetches = 0 /\ item.stores = 0 /\ item.copies = 0
           /\ item.pc = "skipped" => k \in probed
           /\ ~options.skipExisting => item.gets = <<>>
           /\ stats.skipped = Cardinality(probed)

\* One item is skipped on the first GetObject; another one, whose two
\* GetObjects both failed, is processed without an error being counted.
C12_Witness ==
    /\ bpc = "done"
    /\ stats.errors = 0
    /\ \E j, k \in DOMAIN items :
          /\ items[j].pc = "skipped" /\ items[j].gets = <<"ok">>
          /\ items[k].pc = "processed"
          /\ items[k].gets = <<"failed", "failed">>

\* C14: the counters are changed only by the items of the batch in progress
\* and no update is lost: each item of the list adds one to exactly one of
\* processed, skipped and errors, once; at every batch boundary the three
\* add up to the number of items dispatched so far, and at run end to total.
C14_Counters ==
    LET Ended(pc) == {k \in DOMAIN items : items[k].pc = pc}
        dispatched == {k \in DOMAIN items : items[k].pc # "pending"}
        inFlight == {k \in DOMAIN items : ItemInFlight(items[k])}
        counted == stats.processed + stats.skipped + stats.errors
    IN  /\ stats.processed = Cardinality(Ended("processed"))
        /\ stats.skipped = Cardinality(Ended("skipped"))
        /\ stats.errors = Cardinality(Ended("error"))
        /\ inFlight # {} => (bpc = "batch" /\ inFlight \subseteq CurrentBatch)
        /\ bpc \in {"listing", "fatal"} => counted = 0
        /\ bpc \in {"head", "delay", "done"} =>
               counted = Cardinality(dispatched)
        /\ bpc = "done" =>
               (counted = stats.total /\ stats.total = Len(allImages))

\* A run of three items ends with one processed, one skipped, one failed.
C14_Witness ==
    /\ bpc = "done"
    /\ stats.total = 3
    /\ stats.processed = 1
    /\ stats.skipped = 1
    /\ stats.errors = 1

\* The two keys an artifact of a source key can have.
DerivedKeys(key) ==
    <<StripExtension(key) \o DOT_WEBP, StripExtension(key) \o DOT_PNG>>

\* C16 as stated: under skip-existing, once an object exists in the
\* optimized bucket at a derived key of a source key, a run that probes that
\* key skips the source key.
C16_StaleSkipAsStated ==
    [][\A k \in DOMAIN items :
          LET n == IF items[k].pc = "probe1" THEN 1 ELSE 2
          IN  (/\ options.skipExisting
               /\ items[k].pc \in {"probe1", "probe2"}
               /\ DerivedKeys(allImages[k])[n] \in optimized
               /\ items'[k] # items[k])
              => items'[k].pc = "skipped"]_vars

\* C16, amended: under skip-existing, once an object exists at a derived key
\* of a source key, a later probe of that key either succeeds, and then the
\* source key is skipped and never fetched, transformed, stored or copied by
\* that run, whatever its content has become, or fails although the object
\* is there, and then the run goes on to the other derived key and to
\* processing the source key again. Every item is probed before anything
\* else is done with it.
C16_StaleSkip ==
    [][\A k \in DOMAIN items :
          LET n == IF items[k].pc = "probe1" THEN 1 ELSE 2
              after == items'[k]
              reply == after.gets[Len(after.gets)]
          IN  /\ (/\ options.skipExisting
                  /\ items[k].pc \in {"probe1", "probe2"}
                  /\ DerivedKeys(allImages[k])[n] \in optimized
                  /\ after # items[k])
                 => /\ reply \in {"ok", "failed"}
                    /\ reply = "ok" =>
                          /\ after.pc = "skipped"
                          /\ after.fetches = 0
                          /\ after.stores = 0
                          /\ after.copies = 0
                    /\ reply = "failed" =>
                          after.pc = IF n = 1 THEN "probe2"
                                     ELSE IF options.useLambda THEN "copying"
                                     ELSE "fetching"
              /\ (options.skipExisting /\ items[k].pc = "pending"
                     /\ after # items[k]) => after.pc = "probe1"
              /\ items[k].pc = "skipped" => after = items[k]]_vars

\* The artifact a.webp was there before the run: a.jpg is skipped, and
\* a.png, whose probe of a.webp failed, is processed again.
C16_Witness ==
    /\ options.skipExisting
    /\ <<"a">> \o DOT_WEBP \in optimized
    /\ \E j, k \in DOMAIN items :
          /\ DerivedKeys(allImages[j])[1] = <<"a">> \o DOT_WEBP
          /\ items[j].pc = "skipped"
          /\ items[j].gets = <<"ok">>
          /\ DerivedKeys(allImages[k])[1] = <<"a">> \o DOT_WEBP
          /\ items[k].gets = <<"failed", "failed">>
          /\ items[k].pc = "processed"

\* C17: in indirect mode an item is counted as processed as soon as its
\* copy-to-self succeeds, whatever becomes of the optimization the copy
\* triggers; the mode is the same for every item of the run, which itself
\* fetches and stores nothing.
C17_IndirectProcessed ==
    LET copied == {k \in DOMAIN items : items[k].pc = "processed"}
    IN  /\ options.useLambda
        /\ stats.processed = Cardinality(copied)
        /\ \A k \in DOMAIN items :
              /\ items[k].pc \notin
                     {"fetching", "reading", "optimizing", "storing"}
              /\ items[k].fetches = 0
              /\ items[k].stores = 0
              /\ items[k].optimizedKey = <<>>
              /\ items[k].copies = IF items[k].pc \in
                                        {"copying", "processed", "error"}
                                   THEN 1 ELSE 0
              /\ items[k].triggered => k \in copied

\* A run has ended with two items processed and no artifact at all: the
\* handler failed on one copy and has not run yet on the other.
C17_Witness ==
    /\ bpc = "done"
    /\ stats.processed = 2
    /\ optimized = {}
    /\ outcome = "failed"
    /\ \E j, k \in DOMAIN items :
          /\ items[j].pc = "processed" /\ items[j].triggered
          /\ items[k].pc = "processed" /\ ~items[k].triggered

\* C18: the whole paginated listing is finished before any item is
\* dispatched: the item list is the concatenation, in page order, of the
\* supported-extension keys of the pages received, no item is probed,
\* fetched, stored or copied before the last page has arrived, and a
\* failure of a listing request ends the run with no item processed.
C18_ListingFirst ==
    LET counted == stats.processed + stats.skipped + stats.errors
    IN  /\ allImages =
               SelectSeq(SubSeq(listing, 1, cursor), HasAllowedExtension)
        /\ bpc \in {"listing", "fatal"} => (items = <<>> /\ counted = 0)
        /\ bpc \in {"head", "batch", "delay", "done"} =>
               (cursor = Len(listing) /\ Len(items) = Len(allImages))

\* C19: for a finite listing and every integer batch size the command line
\* can pass, zero and negative ones included, and provided every storage
\* call completes or raises, the run terminates, and at its end every key of
\* the list has been dispatched and has finished.
C19_Terminates ==
    <>(\/ bpc = "fatal"
       \/ /\ bpc = "done"
          /\ \A k \in DOMAIN items : ItemSettled(items[k]))

\* C20: two different source keys handled in the same batch never store to
\* the same destination key, so what the optimized bucket holds in the end
\* does not depend on which of them completes last.
C20_DistinctDestinations ==
    \A j, k \in DOMAIN items :
       (/\ bpc = "batch"
        /\ j \in CurrentBatch /\ k \in CurrentBatch
        /\ allImages[j] # allImages[k]
        /\ items[j].stores = 1 /\ items[k].stores = 1)
       => items[j].optimizedKey # items[k].optimizedKey

RECURSIVE SumSeq(_)
SumSeq(q) == IF q = <<>> THEN 0 ELSE Head(q) + SumSeq(Tail(q))

\* C21: in a direct-mode run the byte totals cover exactly the items counted
\* as processed: at run end totalSizeBefore is the sum of the original
\* sizes, and totalSizeAfter the sum of the optimized sizes, of the
\* processed items only; an item that failed contributes to neither.
C21_ByteTotals ==
    (bpc = "done" /\ ~options.useLambda) =>
        /\ stats.totalSizeBefore =
               SumSeq([k \in DOMAIN items |->
                          IF items[k].pc = "processed"
                          THEN OriginalSize(allImages[k]) ELSE 0])
        /\ stats.totalSizeAfter =
               SumSeq([k \in DOMAIN items |->
                          IF items[k].pc = "processed"
                          THEN OptimizedSize(allImages[k]) ELSE 0])

\* C22: the handler and a direct-mode run never write to the source bucket:
\* every store of theirs that succeeds puts its object in the optimized
\* bucket, no step creates, removes or changes the content of a source
\* object, and in a direct-mode run the source bucket stays as it was. Only
\* the successful copy of an indirect-mode run changes a source object, the
\* one it copies, and what it changes is the metadata, which becomes the two
\* trigger fields and nothing else.
C22_SourceFrame ==
    [][LET copiedNow == {k \in DOMAIN items :
                            /\ items[k].pc = "copying"
                            /\ items'[k].pc = "processed"}
           storedNow ==
               {items[k].optimizedKey : k \in {j \in DOMAIN items :
                    items[j].pc = "storing" /\ items'[j].pc = "processed"}}
               \cup
               {rec[i].optimizedKey : i \in {j \in DOMAIN rec :
                    /\ rec[j].pc = "storing"
                    /\ j \in DOMAIN rec' /\ rec'[j].pc = "done"}}
       IN  /\ DOMAIN source' = DOMAIN source
           /\ \A key \in DOMAIN source :
                 /\ source'[key].content = source[key].content
                 /\ source'[key] # source[key] =>
                        /\ options.useLambda
                        /\ \E k \in copiedNow : allImages[k] = key
           /\ \A k \in copiedNow :
                 source'[allImages[k]].metadata = {"reprocessed-at", "trigger"}
           /\ storedNow \subseteq optimized'
           /\ ~options.useLambda => source' = SourceObjects]_vars

\* An indirect-mode run has ended: the object it copied carries the trigger
\* fields over its old content, another source object is as it was, and
\* the handler has stored the artifact in the optimized bucket.
C22_Witness ==
    /\ bpc = "done"
    /\ options.useLambda
    /\ outcome = "succeeded"
    /\ \E k \in DOMAIN items :
          /\ items[k].triggered
          /\ source[allImages[k]] =
                 [content |-> "original",
                  metadata |-> {"reprocessed-at", "trigger"}]
          /\ rec[1].optimizedKey \in optimized
    /\ \E key \in DOMAIN source : source[key] = SourceObjects[key]

====
